---- MODULE Spec2Model ----
(***************************************************************************)
(* Model of falsanu/i18n (src/i18n.js): the translation-catalog loader and *)
(* per-request locale resolver.  The file ships two variants of the same   *)
(* code: one keeping its state in module variables (lines 1-307) and one   *)
(* keeping it in the fields of an I18n instance (lines 309-593).  The      *)
(* variable  variant  selects which one a behaviour runs.                  *)
(*                                                                         *)
(* Third-party pieces are modelled by what they do at the call site:       *)
(*   async.each   calls the iterator on every item in order; the first     *)
(*                done(err) invokes the final callback at once and turns   *)
(*                it into a no-op, otherwise the final callback runs when  *)
(*                every item has called done();                            *)
(*   po2json.parseFile  reports back later (a pending operation);          *)
(*   Jed          fetch raises on a lookup or format failure;              *)
(*   locale       the negotiation middleware sets req.locale and calls     *)
(*                its continuation synchronously.                          *)
(***************************************************************************)
EXTENDS Integers, Sequences, FiniteSets, TLC

\* ------------------------------------------------------------------ bounds

MaxInitialize == 2
MaxConfigure == 1
MaxRequests == 2
MaxArgs == 2

\* ------------------------------------------------------------- value sets

\* Language codes that may appear in a registry.
Codes == {"de", "en"}

\* A code the negotiation library may hand over although it is in no registry
\* (its own default locale).
OtherCode == "fr"

ReqLangs == Codes \cup {OtherCode}

Variants == {"module", "class"}

Range(s) == {s[i] : i \in 1..Len(s)}

\* A plural_forms value: either a rule string or a whole LanguageConfig object.
PluralString(rule) == [t |-> "string", s |-> rule, name |-> "", plurals |-> ""]

PluralObject(info) == [t |-> "object", s |-> "", name |-> info.name, plurals |-> info.plurals]

\* The Jed object built by loadLanguage, with the metadata block it was given.
Locale(code, meta) == [code |-> code, domain |-> meta.domain, lang |-> meta.lang,
                       plural_forms |-> meta.plural_forms]

NoLocale == [code |-> "", domain |-> "", lang |-> "", plural_forms |-> PluralString("")]

\* JavaScript values a variable holding "a locale" can have.
JsUndefined == [t |-> "undefined", s |-> "", l |-> NoLocale]

JsString(str) == [t |-> "string", s |-> str, l |-> NoLocale]

JsLocale(loc) == [t |-> "object", s |-> "", l |-> loc]

Truthy(v) == v.t = "object" \/ (v.t = "string" /\ v.s # "")

\* Function values: the __ / _n closures attached to a locale.
FnUndefined == [t |-> "undefined", name |-> "", owner |-> ""]

Fn(name, loc) == [t |-> "function", name |-> name, owner |-> loc.code]

\* Errors handed to done().
NoError == [kind |-> "none", code |-> ""]

NoPluralError(code) == [kind |-> "No plural information for", code |-> code]

NoFileError(code) == [kind |-> "Could not locate language file", code |-> code]

ParseError(code) == [kind |-> "Error parsing po file for", code |-> code]

\* --------------------------------------------------------- configurations

GoodInfo == [name |-> "Name", plurals |-> "nplurals=2; plural=(n != 1)"]

Infos == {GoodInfo, [GoodInfo EXCEPT !.plurals = ""], [GoodInfo EXCEPT !.name = ""]}

FileStates == {"ok", "unparseable", "missing"}

\* options.defaultLocale: absent (not a string), or a string, possibly empty.
DefaultLocaleOptions == {"absent", "de", "en", ""}

Orders(S) == {s \in UNION {[1..n -> S] : n \in 0..Cardinality(Codes)} :
                 /\ Len(s) = Cardinality(S)
                 /\ Range(s) = S}

\* The options objects configure / the constructor is called with, together
\* with the PO files found under options.pathToTranslations.
Options == {o \in [defaultLocale : DefaultLocaleOptions,
                   languages : UNION {[S -> Infos] : S \in SUBSET Codes},
                   keys : UNION {Orders(S) : S \in SUBSET Codes},
                   files : [Codes -> FileStates]] :
              /\ Range(o.keys) = DOMAIN o.languages
              /\ \A c \in Codes :
                    (c \notin DOMAIN o.languages \/ o.languages[c] # GoodInfo)
                       => o.files[c] = "missing"}

VARIABLES
  variant,          \* which of the two shipped variants runs
  defaultLocale,    \* defaultLocale / this.defaultLocale
  languages,        \* languages / this.languages: code -> LanguageConfig
  languageCodes,    \* Object.keys(languages)
  poFiles,          \* the PO files under pathToTranslations: code -> state
  loadedLanguages,  \* loadedLanguages / this.loadedLanguages: code -> Locale
  middlewareLocale, \* the negotiation middleware instance, or null
  handlerObtained,  \* a handler returned by middleware() is installed
  configLog,        \* log levels written by the last configure / constructor
  optionsDefault,   \* options.defaultLocale as the last configure / constructor got it
  nConfigure,       \* number of configure calls after the first
  inits,            \* one async.each state per initialize call
  pending,          \* po2json.parseFile operations that have not reported back
  requests,         \* the requests passed to the handler, with what it did
  lastGet,          \* the last direct getLocaleForLanguage call and its result
  lastCall,         \* the last call of a translation function and its result
  lastRender        \* the last call of a wrapped res.render and what it delegated

vars == <<variant, defaultLocale, languages, languageCodes, poFiles, loadedLanguages,
          middlewareLocale, handlerObtained, configLog, optionsDefault, nConfigure, inits,
          pending, requests, lastGet, lastCall, lastRender>>

NullMiddleware == [set |-> FALSE, codes |-> <<>>]

\* loadedLanguages = {}
EmptyMap == [c \in {} |-> NoLocale]

NoGet == [called |-> FALSE, code |-> "", val |-> JsUndefined, logs |-> << >>,
          loadedBefore |-> {}, defaultBefore |-> JsUndefined, initializedBefore |-> FALSE]

NoCall == [called |-> FALSE, fn |-> "", owner |-> "", arguments |-> << >>,
           outcome |-> "", key |-> "", args |-> << >>, translated |-> FALSE]

\* The options argument of a res.render call: undefined, an object (with a
\* title and helpers of the caller's own) or a function; after the wrapper,
\* an object whose helpers are the four translation functions.
RenderOptions(t, title, helpers) ==
  [t |-> t, title |-> title, helpers |-> helpers,
   tr |-> FnUndefined, uu |-> FnUndefined, trn |-> FnUndefined, un |-> FnUndefined]

OptionsUndefined == RenderOptions("undefined", "", "none")

OptionsFunction == RenderOptions("function", "", "none")

EmptyOptions == RenderOptions("object", "", "none")

OptionsObject == RenderOptions("object", "Title", "caller")

Views == {"index", "about"}

\* The ways res.render is called: render(view), render(view, options),
\* render(view, fn) and render(view, options, callback).
RenderCalls == {[options |-> OptionsUndefined, callback |-> "undefined"],
                [options |-> OptionsObject, callback |-> "undefined"],
                [options |-> OptionsFunction, callback |-> "undefined"],
                [options |-> OptionsObject, callback |-> "callback"]}

NoRender == [called |-> FALSE, request |-> 0, handled |-> 0, view |-> "", given |-> OptionsUndefined,
             callback |-> "undefined", delegations |-> 0, passedView |-> "",
             passed |-> OptionsUndefined, passedCallback |-> "undefined",
             givenAfter |-> OptionsUndefined]

\* ---------------------------------------------------------------- configure

\* A configure that reports the empty registry at warning level.
ConfigureLogWarn(keys) == IF Len(keys) = 0 THEN <<"warn">> ELSE << >>

\* The log lines of configure: logError when no language is defined.
ConfigureLog(keys) == IF Len(keys) = 0 THEN <<"error">> ELSE << >>

\* i18n.configure(options) and the body of the I18n constructor.
ConfigureState(o) ==
  /\ defaultLocale' = JsString(IF o.defaultLocale = "absent" THEN "en" ELSE o.defaultLocale)
  /\ languages' = o.languages
  /\ languageCodes' = o.keys
  /\ poFiles' = o.files
  /\ loadedLanguages' = EmptyMap
  /\ middlewareLocale' = NullMiddleware
  /\ configLog' = ConfigureLog(o.keys)
  /\ optionsDefault' = o.defaultLocale

\* The state configure / the constructor leaves, but for the loads.
InitConfig ==
  /\ variant \in Variants
  /\ \E o \in Options :
        /\ defaultLocale = JsString(IF o.defaultLocale = "absent" THEN "en" ELSE o.defaultLocale)
        /\ languages = o.languages
        /\ languageCodes = o.keys
        /\ poFiles = o.files
        /\ configLog = ConfigureLog(o.keys)
        /\ optionsDefault = o.defaultLocale
  /\ loadedLanguages = EmptyMap
  /\ middlewareLocale = NullMiddleware
  /\ handlerObtained = FALSE
  /\ nConfigure = 0
  /\ requests = << >>
  /\ lastGet = NoGet
  /\ lastCall = NoCall
  /\ lastRender = NoRender

Init ==
  /\ InitConfig
  /\ inits = << >>
  /\ pending = {}

\* A further i18n.configure(options) call on the module state.  An I18n
\* instance is configured by its constructor only.
Configure ==
  /\ variant = "module"
  /\ nConfigure < MaxConfigure
  /\ \E o \in Options : ConfigureState(o)
  /\ nConfigure' = nConfigure + 1
  /\ UNCHANGED <<variant, handlerObtained, inits, pending, requests, lastGet, lastCall,
                 lastRender>>

\* --------------------------------------------------------------- initialize

\* The state of one async.each call: the array it iterates, the number of
\* items that called done() without error, whether the final callback has
\* been used up, and what the final callback did.  resolved, failed,
\* unresolvedAtCb and loadedAtCb record which items had called done (with an
\* error) and what was loaded when the final callback ran; config is the
\* configuration the call was made under; errors lists the errors passed to
\* done in the order they came.
NewEach(codes) ==
  [codes |-> codes, completed |-> 0, finished |-> FALSE,
   cbCalls |-> 0, cbErr |-> NoError, log |-> << >>,
   resolved |-> {}, failed |-> {}, errors |-> << >>, unresolvedAtCb |-> {},
   loadedAtCb |-> {},
   config |-> nConfigure]

\* The final callback of initialize: log, then callback(err).
FinalCallback(st, err, loaded) ==
  [st EXCEPT !.finished = TRUE,
             !.cbCalls = @ + 1,
             !.cbErr = err,
             !.log = IF err # NoError THEN <<"error">> ELSE <<"info">>,
             !.unresolvedAtCb = Range(st.codes) \ st.resolved,
             !.loadedAtCb = loaded]

\* A done(err) that hands every error to the final callback, not only the
\* first one.
EachDoneEveryError(st, code, err, loaded) ==
  LET st1 == [st EXCEPT !.resolved = @ \cup {code},
                        !.failed = IF err # NoError THEN @ \cup {code} ELSE @,
                        !.errors = IF err # NoError THEN Append(@, err) ELSE @] IN
  IF err # NoError
    THEN FinalCallback(st1, err, loaded)
    ELSE LET st2 == [st1 EXCEPT !.completed = @ + 1] IN
         IF st2.completed >= Len(st2.codes) /\ ~st2.finished
           THEN FinalCallback(st2, NoError, loaded)
           ELSE st2

\* done(err) of async.each for the item code.
EachDone(st, code, err, loaded) ==
  LET st1 == [st EXCEPT !.resolved = @ \cup {code},
                        !.failed = IF err # NoError THEN @ \cup {code} ELSE @,
                        !.errors = IF err # NoError THEN Append(@, err) ELSE @] IN
  IF err # NoError
    THEN IF st1.finished THEN st1 ELSE FinalCallback(st1, err, loaded)
    ELSE LET st2 == [st1 EXCEPT !.completed = @ + 1] IN
         IF st2.completed >= Len(st2.codes) /\ ~st2.finished
           THEN FinalCallback(st2, NoError, loaded)
           ELSE st2

\* An each that waits for a done() also when there is no item.
EachStartWaiting(codes, loaded) == NewEach(codes)

\* async.each on an empty array calls the final callback at once.
EachStart(codes, loaded) ==
  IF Len(codes) = 0 THEN FinalCallback(NewEach(codes), NoError, loaded) ELSE NewEach(codes)

\* The test of the iterator: info && info.name && info.plurals.
InfoComplete(info) == info.name # "" /\ info.plurals # ""

\* What the iterator does with one code, synchronously: "load" starts
\* loadLanguage, anything else is the error it passes to done at once.
IteratorStep(code) ==
  IF code \in DOMAIN languages /\ InfoComplete(languages[code])
    THEN IF poFiles[code] # "missing"
           THEN [load |-> TRUE, err |-> NoError]
           ELSE [load |-> FALSE, err |-> NoFileError(code)]
    ELSE [load |-> FALSE, err |-> NoPluralError(code)]

\* The value initialize passes as the plurals argument of loadLanguage.
PluralsArgument(code) == PluralObject(languages[code])

\* A loop that gives up at the first failing item instead of going on to its
\* siblings.
RECURSIVE IterateUntilError(_, _, _)
IterateUntilError(st, i, started) ==
  IF i > Len(st.codes) \/ st.finished THEN [each |-> st, started |-> started]
  ELSE LET code == st.codes[i]
           step == IteratorStep(code)
       IN IF step.load
            THEN IterateUntilError(st, i + 1, started \cup {code})
            ELSE IterateUntilError(EachDone(st, code, step.err, DOMAIN loadedLanguages),
                                   i + 1, started)

\* The synchronous part of async.each: the iterator on items i..Len(codes).
RECURSIVE Iterate(_, _, _)
Iterate(st, i, started) ==
  IF i > Len(st.codes) THEN [each |-> st, started |-> started]
  ELSE LET code == st.codes[i]
           step == IteratorStep(code)
       IN IF step.load
            THEN Iterate(st, i + 1, started \cup {code})
            ELSE Iterate(EachDone(st, code, step.err, DOMAIN loadedLanguages), i + 1, started)

\* The parse operations initialize call number id starts for the codes started.
Started(id, started) ==
  {[init |-> id, code |-> c, plurals |-> PluralsArgument(c), ok |-> (poFiles[c] = "ok")] :
      c \in started}

\* i18n.initialize(callback), up to the point where it returns.
Initialize ==
  /\ Len(inits) < MaxInitialize
  /\ LET r == Iterate(EachStart(languageCodes, DOMAIN loadedLanguages), 1, {})
     IN /\ inits' = Append(inits, r.each)
        /\ pending' = pending \cup Started(Len(inits) + 1, r.started)
  /\ UNCHANGED <<variant, defaultLocale, languages, languageCodes, poFiles, loadedLanguages,
                 middlewareLocale, handlerObtained, configLog, optionsDefault, nConfigure, requests,
                 lastGet, lastCall,
                 lastRender>>

\* ------------------------------------------------------------- loadLanguage

\* The configuration block loadLanguage injects into the parsed data.
MetaBlock(code, plurals) == [domain |-> "mobile_web", lang |-> code, plural_forms |-> plurals]

\* loadedLanguages[code] = locale
Register(map, code, loc) ==
  [c \in DOMAIN map \cup {code} |-> IF c = code THEN loc ELSE map[c]]

\* The callback po2json.parseFile calls when it reports back for p.
ParseDone(p) ==
  /\ p \in pending
  /\ pending' = pending \ {p}
  /\ IF ~p.ok
       THEN /\ inits' = [inits EXCEPT ![p.init] =
                            EachDone(@, p.code, ParseError(p.code), DOMAIN loadedLanguages)]
            /\ UNCHANGED <<loadedLanguages, defaultLocale>>
       ELSE LET loc == Locale(p.code, MetaBlock(p.code, p.plurals)) IN
            /\ loadedLanguages' = Register(loadedLanguages, p.code, loc)
            /\ defaultLocale' = IF ~Truthy(defaultLocale) THEN JsLocale(loc) ELSE defaultLocale
            /\ inits' = [inits EXCEPT ![p.init] =
                            EachDone(@, p.code, NoError, DOMAIN loadedLanguages')]
  /\ UNCHANGED <<variant, languages, languageCodes, poFiles, middlewareLocale,
                 handlerObtained, configLog, optionsDefault, nConfigure, requests, lastGet, lastCall,
                 lastRender>>

\* ------------------------------------------------------ getLocaleForLanguage

\* loadedLanguages[key] for a key that is any JavaScript value: an object key
\* is no language code, so the lookup yields undefined.
Lookup(key) ==
  IF key.t = "string" /\ key.s \in DOMAIN loadedLanguages
    THEN JsLocale(loadedLanguages[key.s])
    ELSE JsUndefined

\* What the module-state variant falls back to: the defaultLocale variable.
ModuleFallback == defaultLocale

\* What the class variant falls back to: loadedLanguages[defaultLocale].
ClassFallback == Lookup(defaultLocale)

\* getLocaleForLanguage(code): the value returned and the log lines written.
GetLocaleForLanguage(code) ==
  LET found == IF code # "" THEN Lookup(JsString(code)) ELSE JsUndefined IN
  IF Truthy(found)
    THEN [val |-> found, logs |-> << >>]
    ELSE IF variant = "module"
           THEN [val |-> ModuleFallback, logs |-> <<"info">>]
           ELSE [val |-> ClassFallback, logs |-> <<"debug">>]

\* A direct call of getLocaleForLanguage by the application.
GetLocale(code) ==
  /\ LET r == GetLocaleForLanguage(code) IN
       lastGet' = [called |-> TRUE, code |-> code, val |-> r.val, logs |-> r.logs,
                   loadedBefore |-> DOMAIN loadedLanguages, defaultBefore |-> defaultLocale,
                   initializedBefore |-> \E i \in 1..Len(inits) : inits[i].cbCalls > 0]
  /\ UNCHANGED <<variant, defaultLocale, languages, languageCodes, poFiles, loadedLanguages,
                 middlewareLocale, handlerObtained, configLog, optionsDefault, nConfigure, inits, pending,
                 requests, lastCall,
                 lastRender>>

\* --------------------------------------------------------------- middleware

\* i18n.middleware(): creates the negotiation middleware if there is none and
\* returns the request handler.
Middleware ==
  /\ middlewareLocale' = IF ~middlewareLocale.set
                           THEN [set |-> TRUE, codes |-> languageCodes]
                           ELSE middlewareLocale
  /\ handlerObtained' = TRUE
  /\ UNCHANGED <<variant, defaultLocale, languages, languageCodes, poFiles, loadedLanguages,
                 configLog, optionsDefault, nConfigure, inits, pending, requests, lastGet, lastCall,
                 lastRender>>

\* The languages the negotiation middleware can put into req.locale: one of
\* the codes it was built over, or the library's own default.
Negotiable == Range(middlewareLocale.codes) \cup {OtherCode}

\* The request and response before the handler has touched them.
NewRequest(lang) ==
  [locale |-> lang, negotiated |-> FALSE, threw |-> FALSE, nextCalls |-> 0,
   resLocalsLocale |-> JsUndefined, localsSet |-> FALSE,
   tr |-> FnUndefined, uu |-> FnUndefined, trn |-> FnUndefined, un |-> FnUndefined,
   renderWrapped |-> FALSE, helpersOf |-> JsUndefined,
   got |-> JsUndefined, logs |-> << >>]

\* locale.__ and locale._n: reading a property of undefined raises, of a
\* string yields undefined, of a Jed object yields the closure attached to it.
CanRead(v) == v.t # "undefined"

Property(v, name) == IF v.t = "object" THEN Fn(name, v.l) ELSE FnUndefined

\* The continuation the handler gives to the negotiation middleware
\* (everything the handler does after req.locale is set).
AfterNegotiation(rq) ==
  LET r == GetLocaleForLanguage(rq.locale)
      rq1 == [rq EXCEPT !.negotiated = TRUE, !.got = r.val, !.logs = r.logs,
                        !.resLocalsLocale = r.val, !.localsSet = TRUE]
  IN IF ~CanRead(r.val)
       THEN [rq1 EXCEPT !.threw = TRUE]
       ELSE [rq1 EXCEPT !.tr = Property(r.val, "__"),
                        !.uu = Property(r.val, "__"),
                        !.trn = Property(r.val, "_n"),
                        !.un = Property(r.val, "_n"),
                        !.renderWrapped = TRUE,
                        !.helpersOf = r.val,
                        !.nextCalls = @ + 1]

\* The handler returned by middleware(), for one request.
Handler(lang) ==
  IF ~middlewareLocale.set
    THEN [NewRequest(lang) EXCEPT !.threw = TRUE]
    ELSE AfterNegotiation(NewRequest(lang))

\* A request passes through the installed handler.
Request ==
  /\ handlerObtained
  /\ Len(requests) < MaxRequests
  /\ \E lang \in (IF middlewareLocale.set THEN Negotiable ELSE {OtherCode}) :
        requests' = Append(requests, Handler(lang))
  /\ UNCHANGED <<variant, defaultLocale, languages, languageCodes, poFiles, loadedLanguages,
                 middlewareLocale, handlerObtained, configLog, optionsDefault, nConfigure, inits, pending,
                 lastGet, lastCall,
                 lastRender>>

\* ------------------------------------------------------ res.render wrapper

\* A wrapper that writes the helpers into the caller's own options object.
ExtendInPlace(options, loc) ==
  LET merged == [t |-> "object",
                 title |-> IF options.t = "object" THEN options.title ELSE "",
                 helpers |-> "i18n",
                 tr |-> Property(loc, "__"), uu |-> Property(loc, "__"),
                 trn |-> Property(loc, "_n"), un |-> Property(loc, "_n")]
  IN [passed |-> merged, givenAfter |-> IF options.t = "object" THEN merged ELSE options]

\* options = _.extend({}, options, {helpers: helpers}): the options passed on
\* are a fresh object with the caller's own properties, its helpers replaced
\* by the four functions of loc; the caller's object stays as it was.
ExtendOptions(options, loc) ==
  [passed |-> [t |-> "object",
               title |-> IF options.t = "object" THEN options.title ELSE "",
               helpers |-> "i18n",
               tr |-> Property(loc, "__"), uu |-> Property(loc, "__"),
               trn |-> Property(loc, "_n"), un |-> Property(loc, "_n")],
   givenAfter |-> options]

\* A wrapper that takes the locale from the request handled last instead of
\* its own request.
RenderWrapperShared(k, view, options, callback) ==
  LET swap == callback = "undefined" /\ options.t = "function"
      ext == ExtendOptions(IF swap THEN EmptyOptions ELSE options,
                           requests[Len(requests)].helpersOf)
  IN [called |-> TRUE, request |-> k, handled |-> Len(requests), view |-> view,
      given |-> options,
      callback |-> callback, delegations |-> 1, passedView |-> view,
      passed |-> ext.passed,
      passedCallback |-> IF swap THEN "options" ELSE callback,
      givenAfter |-> IF swap THEN options ELSE ext.givenAfter]

\* The function the handler of request k put into res.render, called as
\* render(view, options, callback): one call of the original render, whose
\* callback is the options argument ("options") when that is a function and
\* no callback was given.
RenderWrapper(k, view, options, callback) ==
  LET swap == callback = "undefined" /\ options.t = "function"
      ext == ExtendOptions(IF swap THEN EmptyOptions ELSE options, requests[k].helpersOf)
  IN [called |-> TRUE, request |-> k, handled |-> Len(requests), view |-> view,
      given |-> options,
      callback |-> callback, delegations |-> 1, passedView |-> view,
      passed |-> ext.passed,
      passedCallback |-> IF swap THEN "options" ELSE callback,
      givenAfter |-> IF swap THEN options ELSE ext.givenAfter]

\* The application calls res.render of a response the handler has wrapped.
Render ==
  /\ \E k \in 1..Len(requests), view \in Views, call \in RenderCalls :
        /\ requests[k].renderWrapped
        /\ lastRender' = RenderWrapper(k, view, call.options, call.callback)
  /\ UNCHANGED <<variant, defaultLocale, languages, languageCodes, poFiles, loadedLanguages,
                 middlewareLocale, handlerObtained, configLog, optionsDefault, nConfigure,
                 inits, pending, requests, lastGet, lastCall>>

\* ---------------------------------------------------- translation functions

\* Texts passed as the first argument, and further argument values.  Values
\* are written as JavaScript would print them, numbers with a num: prefix.
Texts == {"Hello", "%d items", ""}

Numbers == {"num:0", "num:1", "num:5"}

ExtraVals == {"a", "num:0", "num:5"}

\* The values _.compact removes.
Falsy == {"", "num:0", "false", "null"}

ExtraArgs == UNION {[1..n -> ExtraVals] : n \in 0..MaxArgs}

\* _.compact(args)
Compact(args) == SelectSeq(args, LAMBDA v : v \notin Falsy)

\* The argument handling of locale.__ .
StripTranslate(arguments) ==
  IF Len(arguments) >= 2
    THEN Compact([arguments EXCEPT ![1] = "null", ![Len(arguments)] = "null"])
    ELSE arguments

\* The argument handling of locale._n .
StripPlural(arguments) ==
  IF Len(arguments) >= 4
    THEN Compact([arguments EXCEPT ![1] = "null", ![2] = "null", ![Len(arguments)] = "null"])
    ELSE arguments

\* locale.translate(key)...fetch(args) of the Jed object: it raises when there
\* is no key to look up, and its formatter raises when a %d finds no number.
FetchRaises(key, args) ==
  \/ key = ""
  \/ Len(args) > 0 /\ key = "%d items" /\ args[1] \notin Numbers

\* vsprintf(text, args) of the branch taken when there is no catalog.
FormatRaises(text, args) == text = "%d items" /\ (Len(args) = 0 \/ args[1] \notin Numbers)

Outcome(fn, loc, arguments, outcome, key, args, translated) ==
  [called |-> TRUE, fn |-> fn, owner |-> loc.code, arguments |-> arguments,
   outcome |-> outcome, key |-> key, args |-> args, translated |-> translated]

\* The body shared by __ and _n once the arguments are stripped: key is the
\* text looked up, orig the text the no-catalog branch formats.
Fetch(fn, loc, arguments, key, orig, args) ==
  IF Truthy(JsLocale(loc))
    THEN IF FetchRaises(key, args)
           THEN Outcome(fn, loc, arguments, "raised", key, args, FALSE)
           ELSE Outcome(fn, loc, arguments, "returned", key, args, TRUE)
    ELSE IF FormatRaises(orig, args)
           THEN Outcome(fn, loc, arguments, "returned", orig, << >>, FALSE)
           ELSE Outcome(fn, loc, arguments, "returned", orig, args, FALSE)

\* locale.__(text, ...)
TranslateFn(loc, arguments) ==
  Fetch("__", loc, arguments, arguments[1], arguments[1], StripTranslate(arguments))

\* locale._n(sText, pText, number, ...)
TranslateWithPluralFn(loc, arguments) ==
  Fetch("_n", loc, arguments, arguments[1],
        IF arguments[3] = "num:1" THEN arguments[1] ELSE arguments[2],
        StripPlural(arguments))

\* A call of __ / tr of a loaded locale.
Translate ==
  /\ \E code \in DOMAIN loadedLanguages, text \in Texts, extra \in ExtraArgs :
        lastCall' = TranslateFn(loadedLanguages[code], <<text>> \o extra)
  /\ UNCHANGED <<variant, defaultLocale, languages, languageCodes, poFiles, loadedLanguages,
                 middlewareLocale, handlerObtained, configLog, optionsDefault, nConfigure, inits, pending,
                 requests, lastGet,
                 lastRender>>

\* A call of _n / trn of a loaded locale.
TranslateWithPlural ==
  /\ \E code \in DOMAIN loadedLanguages, sText \in Texts, number \in {"num:1", "num:5"},
        extra \in ExtraArgs :
        lastCall' = TranslateWithPluralFn(loadedLanguages[code],
                                          <<sText, "%d items", number>> \o extra)
  /\ UNCHANGED <<variant, defaultLocale, languages, languageCodes, poFiles, loadedLanguages,
                 middlewareLocale, handlerObtained, configLog, optionsDefault, nConfigure, inits, pending,
                 requests, lastGet,
                 lastRender>>

\* ----------------------------------------------------------- specifications

Next ==
  \/ Initialize
  \/ \E p \in pending : ParseDone(p)
  \/ \E code \in ReqLangs : GetLocale(code)
  \/ Middleware
  \/ Request

Spec == Init /\ [][Next]_vars

\* The module-state variant with further configure calls.
NextReconfigure ==
  \/ Configure
  \/ Initialize
  \/ \E p \in pending : ParseDone(p)

SpecReconfigure == Init /\ [][NextReconfigure]_vars

\* Catalog loading alone; every parse that was started reports back.
NextLoad ==
  \/ Initialize
  \/ \E p \in pending : ParseDone(p)

SpecLoad == Init /\ [][NextLoad]_vars /\ WF_vars(\E p \in pending : ParseDone(p))

\* Serving requests from a registry whose entries all load, while the loads
\* of the one initialize call report back.
AllValid ==
  \A c \in DOMAIN languages : InfoComplete(languages[c]) /\ poFiles[c] = "ok"

\* The application has called configure (or the constructor) and initialize,
\* as the README has it, and starts serving.
InitServe ==
  /\ InitConfig
  /\ AllValid
  /\ LET r == Iterate(EachStart(languageCodes, DOMAIN loadedLanguages), 1, {})
     IN /\ inits = <<r.each>>
        /\ pending = Started(1, r.started)

NextServe ==
  \/ \E p \in pending : ParseDone(p)
  \/ Middleware
  \/ Request
  \/ Render

SpecServe == InitServe /\ [][NextServe]_vars

\* The module-state variant: handlers, requests and further configure calls.
NextReconfigureServe ==
  \/ Configure
  \/ Middleware
  \/ Request

SpecReconfigureServe == Init /\ [][NextReconfigureServe]_vars

\* The translation functions of the locale of a one-language registry that
\* loads.
Loadable ==
  /\ Cardinality(DOMAIN languages) = 1
  /\ \A c \in DOMAIN languages : InfoComplete(languages[c]) /\ poFiles[c] = "ok"

NextTranslate ==
  \/ Initialize
  \/ \E p \in pending : ParseDone(p)
  \/ Translate
  \/ TranslateWithPlural

InitTranslate == Init /\ Loadable

SpecTranslate == InitTranslate /\ [][NextTranslate]_vars

\* ---------------------------------------------------------------- properties

\* The registered languages that have a name, a plural rule and a PO file
\* that exists and parses, and those whose iterator step fails at once.
Valid == {c \in DOMAIN languages : InfoComplete(languages[c]) /\ poFiles[c] = "ok"}

FailingAtOnce == {c \in DOMAIN languages : ~IteratorStep(c).load}

Called(i) == inits[i].cbCalls > 0

\* C1: when the completion callback of an initialize call runs, every
\* registered language's load attempt of that call has resolved.
C1_CallbackAfterAllResolved ==
  \A i \in 1..Len(inits) : Called(i) => inits[i].unresolvedAtCb = {}

\* C2: a getLocaleForLanguage(code) call made once the completion callback
\* has been invoked returns, for every valid registered code, a locale whose
\* code is the requested one.
C2_ValidCodeResolvesAfterCallback ==
  (lastGet.called /\ lastGet.initializedBefore /\ lastGet.code \in Valid)
     => (lastGet.val.t = "object" /\ lastGet.val.l.code = lastGet.code)

\* C3: for a code that is no key of LoadedLanguages getLocaleForLanguage
\* writes one fallback log line, and whenever the configured default code is
\* loaded it returns the LoadedLocale registered under that default code.
C3_FallbackIsDefaultLocale ==
  (lastGet.called /\ lastGet.code \notin lastGet.loadedBefore)
     => /\ Len(lastGet.logs) = 1
        /\ (lastGet.defaultBefore.t = "string" /\ lastGet.defaultBefore.s \in lastGet.loadedBefore)
              => (lastGet.val.t = "object" /\ lastGet.val.l.code = lastGet.defaultBefore.s)

\* The registry has exactly one entry that fails at once (no name, no plural
\* rule or no catalog file), and every other entry is valid.
OneFailing ==
  /\ Cardinality(FailingAtOnce) = 1
  /\ Valid # {}
  /\ FailingAtOnce \cup Valid = DOMAIN languages

\* C4: on a registry with one failing entry and otherwise valid entries,
\* every initialize call hands its callback an error naming the failing
\* code, and every valid language is eventually registered in
\* LoadedLanguages.
C4_FailureDoesNotStopSiblings ==
  /\ [](OneFailing =>
          \A i \in 1..Len(inits) :
             /\ Called(i)
             /\ inits[i].cbErr # NoError
             /\ inits[i].cbErr.code \in FailingAtOnce)
  /\ \A c \in Codes :
        (OneFailing /\ inits # << >> /\ c \in Valid) ~> (c \in DOMAIN loadedLanguages)

C4_Witness ==
  /\ OneFailing
  /\ inits # << >>
  /\ inits[1].cbCalls = 1
  /\ inits[1].cbErr.code \in FailingAtOnce
  /\ inits[1].codes[1] \in FailingAtOnce
  /\ Valid \subseteq DOMAIN loadedLanguages

\* C5: every key of LoadedLanguages is a key of the current Registry, and a
\* language whose load failed under the current configuration is no key of
\* LoadedLanguages.
C5_LoadedWithinRegistry ==
  /\ DOMAIN loadedLanguages \subseteq DOMAIN languages
  /\ \A i \in 1..Len(inits) :
        inits[i].config = nConfigure => inits[i].failed \cap DOMAIN loadedLanguages = {}

\* C6: once the completion callback of every initialize call made so far has
\* been invoked, a step that is no further initialize call leaves
\* LoadedLanguages as it is.
C6_ImmutableAfterCallback ==
  [][(inits # << >> /\ (\A i \in 1..Len(inits) : Called(i)) /\ Len(inits') = Len(inits))
        => loadedLanguages' = loadedLanguages]_vars

\* C7: a call of __ or _n on a loaded locale never raises; when the lookup or
\* the formatter fails it returns the text it was called with.
C7_TranslateNeverRaises ==
  lastCall.called
     => /\ lastCall.outcome = "returned"
        /\ FetchRaises(lastCall.arguments[1], lastCall.args) => ~lastCall.translated

\* C8: once negotiation has finished the handler has set req.tr, req.__,
\* req.trn, req._n and res.locals.locale from the one locale that
\* getLocaleForLanguage(req.locale) returned.
C8_HandlerSetsHelpers ==
  \A k \in 1..Len(requests) :
     LET rq == requests[k] IN
     rq.negotiated
        => /\ rq.got.t = "object"
           /\ rq.tr = Fn("__", rq.got.l)
           /\ rq.uu = Fn("__", rq.got.l)
           /\ rq.trn = Fn("_n", rq.got.l)
           /\ rq.un = Fn("_n", rq.got.l)
           /\ rq.resLocalsLocale = rq.got

\* C9: for every request the handler calls next() exactly once and raises
\* nothing.
C9_HandlerCallsNextOnce ==
  \A k \in 1..Len(requests) : ~requests[k].threw /\ requests[k].nextCalls = 1

\* C10: the metadata block of every loaded language has the plural rule of
\* its registry entry as plural-form field, the code as language field and
\* the fixed domain name as domain field.
C10_MetaBlockCarriesPluralRule ==
  \A c \in DOMAIN loadedLanguages :
     c \in DOMAIN languages
        => /\ loadedLanguages[c].plural_forms = PluralString(languages[c].plurals)
           /\ loadedLanguages[c].lang = c
           /\ loadedLanguages[c].domain = "mobile_web"

\* The arguments C11 expects the formatter to get: all but the first and the
\* last (translate), all but the first, the second and the last (plural).
Middle(fn, arguments) ==
  LET n == Len(arguments) IN
  IF fn = "__" /\ n >= 2 THEN SubSeq(arguments, 2, n - 1)
  ELSE IF fn = "_n" /\ n >= 4 THEN SubSeq(arguments, 3, n - 1)
  ELSE arguments

\* C11: the list handed to the formatter is the argument list without its
\* first and last slot (translate, two or more arguments) or without its
\* first, second and last slot (plural, four or more arguments), whatever the
\* values of the remaining arguments; shorter lists are handed over unchanged.
C11_OnlyOuterSlotsStripped ==
  lastCall.called => lastCall.args = Middle(lastCall.fn, lastCall.arguments)

\* C12: when the options give no defaultLocale, a loaded locale (the first
\* one loaded) is the default locale, and a getLocaleForLanguage call that
\* falls back returns that locale.
C12_FirstLoadedIsDefault ==
  optionsDefault = "absent"
     => /\ loadedLanguages # EmptyMap
           => (defaultLocale.t = "object" /\ defaultLocale.l.code \in DOMAIN loadedLanguages)
        /\ (lastGet.called /\ lastGet.loadedBefore # {}
              /\ lastGet.code \notin lastGet.loadedBefore)
           => (lastGet.val.t = "object" /\ lastGet.val = lastGet.defaultBefore)

\* C13: a call of the wrapped res.render delegates once to the original
\* render with the same view and with options whose helpers are the four
\* functions the handler put on the request; called as render(view, fn) it
\* passes fn on as the callback and options that hold the helpers only; the
\* caller's options object is left as it was.
C13_RenderDelegatesWithHelpers ==
  lastRender.called =>
     LET rq == requests[lastRender.request] IN
     /\ lastRender.delegations = 1
     /\ lastRender.passedView = lastRender.view
     /\ lastRender.passed.t = "object"
     /\ lastRender.passed.helpers = "i18n"
     /\ lastRender.passed.tr = rq.tr
     /\ lastRender.passed.uu = rq.uu
     /\ lastRender.passed.trn = rq.trn
     /\ lastRender.passed.un = rq.un
     /\ (lastRender.given.t = "function" /\ lastRender.callback = "undefined")
           => (lastRender.passedCallback = "options" /\ lastRender.passed.title = "")
     /\ lastRender.givenAfter = lastRender.given

C13_Witness ==
  /\ lastRender.called
  /\ lastRender.given = OptionsObject
  /\ lastRender.passed.title = "Title"
  /\ lastRender.passed.tr.t = "function"

\* A request whose negotiated language resolved to a loaded locale.
Resolved(k) == requests[k].got.t = "object"

\* C14: the error handed to the completion callback is the first error that
\* was passed to done, and there is none exactly when every registered
\* language has loaded.
C14_FirstErrorOrNone ==
  \A i \in 1..Len(inits) :
     /\ Called(i) => inits[i].cbErr = IF inits[i].errors # << >>
                                        THEN inits[i].errors[1] ELSE NoError
     /\ (Called(i) /\ inits[i].cbErr = NoError)
           <=> (inits[i].failed = {} /\ inits[i].resolved = Range(inits[i].codes))
     /\ (Called(i) /\ inits[i].cbErr = NoError)
           => Range(inits[i].codes) \subseteq DOMAIN loadedLanguages

C14_Witness ==
  /\ inits # << >>
  /\ Len(inits[1].errors) = 2
  /\ inits[1].errors[1].kind = "Error parsing po file for"
  /\ inits[1].cbErr = inits[1].errors[1]

\* C15 as stated: an empty registry is reported at warning level and not at
\* error level, and initialize then calls back without error and loads
\* nothing.
C15_EmptyRegistryWarns ==
  languageCodes = << >>
     => /\ configLog = <<"warn">>
        /\ loadedLanguages = EmptyMap
        /\ \A i \in 1..Len(inits) : inits[i].cbCalls = 1 /\ inits[i].cbErr = NoError

\* C15 amended: an empty registry is reported through the error-level
\* callback (and through no other), and initialize then calls back once,
\* without error, and loads nothing.
C15_EmptyRegistryLogsError ==
  languageCodes = << >>
     => /\ configLog = <<"error">>
        /\ loadedLanguages = EmptyMap
        /\ pending = {}
        /\ \A i \in 1..Len(inits) : inits[i].cbCalls = 1 /\ inits[i].cbErr = NoError

C15_Witness ==
  /\ languageCodes = << >>
  /\ Len(inits) = 2
  /\ inits[2].cbCalls = 1

\* C16: of two requests that resolved to different loaded locales, each has
\* the translation functions of its own locale on req, and a render call of
\* either gets the helpers of its own locale.
C16_NoCrossRequestInterference ==
  \A j, k \in 1..Len(requests) :
     (Resolved(j) /\ Resolved(k) /\ requests[j].got.l.code # requests[k].got.l.code)
        => /\ requests[k].tr = Fn("__", requests[k].got.l)
           /\ requests[k].trn = Fn("_n", requests[k].got.l)
           /\ requests[k].tr # requests[j].tr
           /\ requests[k].trn # requests[j].trn
           /\ (lastRender.called /\ lastRender.request = k)
                 => /\ lastRender.passed.tr = Fn("__", requests[k].got.l)
                    /\ lastRender.passed.uu = Fn("__", requests[k].got.l)
                    /\ lastRender.passed.trn = Fn("_n", requests[k].got.l)
                    /\ lastRender.passed.un = Fn("_n", requests[k].got.l)

C16_Witness ==
  /\ Len(requests) = 2
  /\ Resolved(1)
  /\ Resolved(2)
  /\ requests[1].got.l.code # requests[2].got.l.code
  /\ lastRender.called
  /\ lastRender.request = 1
  /\ lastRender.handled = 2

\* C17: every request a handler gets is delegated to a negotiation
\* middleware instance, and that instance was built over the language codes
\* now configured.
C17_HandlerHasInstance ==
  /\ \A k \in 1..Len(requests) : requests[k].negotiated
  /\ middlewareLocale.set => middlewareLocale.codes = languageCodes

\* C18: the completion callback of an initialize call is never invoked
\* twice, and it is invoked once every parse has reported back.
C18_CallbackExactlyOnce ==
  /\ [](\A i \in 1..Len(inits) : inits[i].cbCalls <= 1)
  /\ \A i \in 1..MaxInitialize :
        (Len(inits) >= i) ~> (Len(inits) >= i /\ inits[i].cbCalls = 1)

C18_Witness ==
  /\ inits # << >>
  /\ pending = {}
  /\ Len(inits[1].codes) = 2
  /\ inits[1].codes[1] \in inits[1].failed
  /\ inits[1].completed = 1
  /\ inits[1].cbCalls = 1
====
